---- MODULE Spec2Model ----
(***************************************************************************)
(* KothSeedingPlugin: population-driven rescaling of the KOTH settings.    *)
(*                                                                         *)
(* JSON / JavaScript values are tagged records:                            *)
(*   Undefined, Null, Bool(b), Num(n), Str(s), Dec(d), ListP(l, p), Map(m) *)
(* Numbers are held in hundredths (Num(150) is 1.5).  Dec(d) is the string *)
(* that Number.prototype.toFixed(2) yields for d hundredths ("1.50").      *)
(* A list carries, next to its elements, the named properties that were    *)
(* assigned onto the array object; JSON.stringify drops them.              *)
(***************************************************************************)
EXTENDS Integers, Sequences, FiniteSets, TLC

\* ------------------------------------------------------------------ values
EmptyMap == << >>

Undefined == [t |-> "undef"]
Null == [t |-> "null"]
Throw == [t |-> "throw"]
Bool(b) == [t |-> "bool", b |-> b]
Num(n) == [t |-> "num", n |-> n]
Str(s) == [t |-> "str", s |-> s]
Dec(d) == [t |-> "dec", d |-> d]
\* id is the identity of a mapping or list object: the path at which the
\* object sits in a labelled input, << >> for an object built afresh
Fresh == << >>
ListP(l, p) == [t |-> "list", l |-> l, p |-> p, id |-> Fresh]
List(l) == ListP(l, EmptyMap)
Map(m) == [t |-> "map", m |-> m, id |-> Fresh]

IsArray(v) == v.t = "list"
IsMap(v) == v.t = "map"
\* typeof v === 'object' (null included)
IsObjectType(v) == v.t \in {"map", "list", "null"}
\* ToBoolean(v)
Truthy(v) ==
  CASE v.t \in {"undef", "null"} -> FALSE
    [] v.t = "bool" -> v.b
    [] v.t = "num" -> v.n # 0
    [] v.t = "str" -> v.s # ""
    [] OTHER -> TRUE

\* v[key]: own named property of a value (a primitive has none of the keys used)
Get(v, key) ==
  CASE v.t = "map" -> IF key \in DOMAIN v.m THEN v.m[key] ELSE Undefined
    [] v.t = "list" -> IF key \in DOMAIN v.p THEN v.p[key] ELSE Undefined
    [] OTHER -> Undefined

MapPut(m, key, val) == [k \in (DOMAIN m) \cup {key} |-> IF k = key THEN val ELSE m[k]]

\* v[key] = val in strict mode code (class bodies are strict): assigning a
\* property on a primitive raises a TypeError
Set(v, key, val) ==
  CASE v.t = "map" -> [v EXCEPT !.m = MapPut(v.m, key, val)]
    [] v.t = "list" -> [v EXCEPT !.p = MapPut(v.p, key, val)]
    [] OTHER -> Throw

\* a === b (objects are never identical to a separately built object)
StrictEq(a, b) == a.t \notin {"map", "list"} /\ a = b

\* { ...a, ...b } for mappings a and b
Spread2(a, b) ==
  Map([k \in (DOMAIN a.m) \cup (DOMAIN b.m) |-> IF k \in DOMAIN b.m THEN b.m[k] ELSE a.m[k]])

\* { ...v }: own enumerable properties of v copied into a fresh mapping
SpreadCopy(v) ==
  CASE v.t = "map" -> Map(v.m)
    [] v.t = "list" -> Map(v.p)
    [] OTHER -> Map(EmptyMap)

\* --------------------------------------------------------- determineLevel
\* Math.ceil(playerCount / 10) for a non-negative integer count
CeilDiv10(c) == (c + 9) \div 10

Min2(a, b) == IF a < b THEN a ELSE b
Max2(a, b) == IF a > b THEN a ELSE b

\* a mutant of determineLevel: Math.floor in place of Math.ceil
determineLevelFloor(playerCount) == Min2(Max2(1, playerCount \div 10), 10)

determineLevel(playerCount) == Min2(Max2(1, CeilDiv10(playerCount)), 10)

\* ------------------------------------------------------- getLevelSettings
\* nine times lerp(min, max): min + (max - min) * (level - 1) / 9, exactly
lerp9(min, max, level) == min * 9 + (max - min) * (level - 1)

\* x.toFixed(2) of x = x9 / 9 hundredths: the numeral string, two decimals
toFixed2(x9) == Dec((2 * x9 + 9) \div 18)

\* Math.round(x) of x = x9 / 9 hundredths: an integer, back in hundredths
MathRound(x9) == Num(100 * ((2 * x9 + 900) \div 1800))

\* one entry of the "rewards" list: xp and $ interpolated between lo and hi
Reward(name, lo, hi, level) ==
  Map(("name" :> Str(name))
      @@ ("xp" :> MathRound(lerp9(lo * 100, hi * 100, level)))
      @@ ("$" :> MathRound(lerp9(lo * 100, hi * 100, level))))

getLevelSettings(level) ==
  Map(("msv timer" :> toFixed2(lerp9(3000, 18000, level)))
      @@ ("economy" :> Map(("$ multiplier" :> Num(150))
                           @@ ("xp multiplier" :> Num(100))
                           @@ ("weapon xp multiplier" :> Num(400))))
      @@ ("zone" :> Map(("move interval" :> Num(30000))
                        @@ ("move fraction" :> toFixed2(lerp9(100, 50, level)))
                        @@ ("radius multiplier" :> toFixed2(lerp9(70, 100, level)))
                        @@ ("prio radius multiplier" :> toFixed2(lerp9(50, 100, level)))
                        @@ ("half height" :> Num(3000000))
                        @@ ("reward update interval" :> toFixed2(lerp9(1000, 3000, level)))
                        @@ ("vehicle can capture" :> Bool(FALSE))
                        @@ ("prio vehicle can capture" :> Bool(TRUE))))
      @@ ("rewards" :> List(<<Reward("Enemy Killed", 200, 100, level),
                              Reward("Priority Offensive", 400, 200, level),
                              Reward("Priority Defensive", 500, 200, level),
                              Reward("Objective Offensive", 70, 100, level),
                              Reward("Objective Defensive", 80, 100, level),
                              Reward("Bot Killed", 100, 25, level)>>)))

\* -------------------------------------------------------------- deepMerge
\* newRewards.findIndex(r => r.name === name): 0 when nothing matches, -1
\* when an entry visited before the first match is null (reading .name of
\* null raises a TypeError)
RECURSIVE findIndexFrom(_, _, _)
findIndexFrom(rewards, name, i) ==
  IF i > Len(rewards) THEN 0
  ELSE IF rewards[i].t \in {"null", "undef"} THEN -1
  ELSE IF StrictEq(Get(rewards[i], "name"), name) THEN i
  ELSE findIndexFrom(rewards, name, i + 1)

findIndex(rewards, name) == findIndexFrom(rewards, name, 1)

\* a mutant of mergeRewardsFrom: a matched entry is replaced by the source
\* entry instead of merged with it
RECURSIVE mergeRewardsReplace(_, _, _)
mergeRewardsReplace(newRewards, src, i) ==
  IF i > Len(src) THEN List(newRewards)
  ELSE IF src[i].t \in {"null", "undef"} THEN Throw
  ELSE IF ~Truthy(Get(src[i], "name")) THEN mergeRewardsReplace(newRewards, src, i + 1)
  ELSE LET targetIndex == findIndex(newRewards, Get(src[i], "name"))
       IN IF targetIndex < 0 THEN Throw
          ELSE IF targetIndex > 0
            THEN mergeRewardsReplace(
                   [newRewards EXCEPT ![targetIndex] = SpreadCopy(src[i])], src, i + 1)
          ELSE mergeRewardsReplace(Append(newRewards, SpreadCopy(src[i])), src, i + 1)

\* one pass of source[key].forEach(sourceReward => ...) from entry i on;
\* newRewards is a sequence, or Throw
RECURSIVE mergeRewardsFrom(_, _, _)
mergeRewardsFrom(newRewards, src, i) ==
  IF i > Len(src) THEN List(newRewards)
  ELSE IF src[i].t \in {"null", "undef"} THEN Throw
  ELSE IF ~Truthy(Get(src[i], "name")) THEN mergeRewardsFrom(newRewards, src, i + 1)
  ELSE LET targetIndex == findIndex(newRewards, Get(src[i], "name"))
       IN IF targetIndex < 0 THEN Throw
          ELSE IF targetIndex > 0
            THEN mergeRewardsFrom(
                   [newRewards EXCEPT ![targetIndex] =
                      Spread2(SpreadCopy(newRewards[targetIndex]), SpreadCopy(src[i]))],
                   src, i + 1)
          ELSE mergeRewardsFrom(Append(newRewards, SpreadCopy(src[i])), src, i + 1)

\* source[key].map(item => typeof item === 'object' && !Array.isArray(item) ? { ...item } : item)
copyItem(item) == IF IsObjectType(item) /\ ~IsArray(item) THEN SpreadCopy(item) ELSE item

\* a mutant of copyList: target[key] = source[key], the list itself
copyListAlias(list) == list

copyList(list) == List([i \in 1..Len(list.l) |-> copyItem(list.l[i])])

RECURSIVE deepMerge(_, _)
RECURSIVE mergeKeys(_, _, _)

\* a mutant of mergeKey: a mapping of the source overwrites the target's
\* value instead of being merged into it
mergeKeyOverwrite(target, source, key) ==
  LET sv == source.m[key]
      tv == Get(target, key)
  IN IF key = "rewards" /\ IsArray(sv) /\ IsArray(tv)
       THEN LET nr == mergeRewardsFrom(tv.l, sv.l, 1)
            IN IF nr = Throw THEN Throw ELSE Set(target, key, nr)
     ELSE IF Truthy(sv) /\ IsObjectType(sv) /\ ~IsArray(sv)
       THEN Set(target, key, deepMerge(Map(EmptyMap), sv))
     ELSE IF IsArray(sv)
       THEN Set(target, key, copyList(sv))
     ELSE Set(target, key, sv)

\* the body of the for-in loop for one key; target is a value or Throw
mergeKey(target, source, key) ==
  LET sv == source.m[key]
      tv == Get(target, key)
  IN IF key = "rewards" /\ IsArray(sv) /\ IsArray(tv)
       THEN LET nr == mergeRewardsFrom(tv.l, sv.l, 1)
            IN IF nr = Throw THEN Throw ELSE Set(target, key, nr)
     ELSE IF Truthy(sv) /\ IsObjectType(sv) /\ ~IsArray(sv)
       THEN LET sub == IF Truthy(tv) THEN tv ELSE Map(EmptyMap)
            IN IF Set(target, key, sub) = Throw THEN Throw
               ELSE LET merged == deepMerge(sub, sv)
                    IN IF merged = Throw THEN Throw ELSE Set(target, key, merged)
     ELSE IF IsArray(sv)
       THEN Set(target, key, copyList(sv))
     ELSE Set(target, key, sv)

mergeKeys(target, source, keys) ==
  IF keys = {} \/ target = Throw THEN target
  ELSE LET key == CHOOSE k \in keys : TRUE
       IN mergeKeys(mergeKey(target, source, key), source, keys \ {key})

\* deepMerge(target, source): the merged target, or Throw
deepMerge(target, source) == mergeKeys(target, source, DOMAIN source.m)

\* ------------------------------------------------- bounded merge inputs
MaxRewards == 2

SeqsUpTo(S, n) == UNION {[1..k -> S] : k \in 0..n}

TargetEntry(name) == Map([name |-> Str(name), xp |-> Num(100), keep |-> Num(700)])
SourceEntry(name) == Map([name |-> Str(name), xp |-> Num(900), dollar |-> Num(500)])

TargetEntries ==
  {TargetEntry("X"), TargetEntry("Y"), Map([xp |-> Num(100)]), Null, Num(700)}
SourceEntries ==
  {SourceEntry("X"), SourceEntry("Y"), Map([xp |-> Num(900)]), Null}

TargetRewardLists == {List(l) : l \in SeqsUpTo(TargetEntries, MaxRewards)}
SourceRewardLists == {List(l) : l \in SeqsUpTo(SourceEntries, MaxRewards)}

TargetZones ==
  {Null, Num(0), Num(500), Str("s"), Bool(TRUE), List(<< >>), List(<<Num(100)>>),
   Map(EmptyMap), Map([a |-> Num(0)]), Map([a |-> Num(0), b |-> Num(200)]),
   Map([a |-> Map([c |-> Num(100)]), b |-> Num(200)]), Map([a |-> Str("s"), b |-> Num(200)])}
SourceZones ==
  {Map(EmptyMap), Map([a |-> Num(100)]), Map([a |-> Map([c |-> Num(900), d |-> Num(900)])]),
   Num(100), Null, List(<<Map([q |-> Num(100)]), Null, Num(300)>>),
   List(<<Map([q |-> Map([r |-> Num(100)])]), List(<<Num(100)>>)>>)}

\* targets and sources of the reward-list cases
RewardTargets ==
  {Map(m) : m \in {MapPut(o, "rewards", r) :
                     o \in {EmptyMap, [other |-> Bool(TRUE)]}, r \in TargetRewardLists}}
RewardSources == {Map([rewards |-> r]) : r \in SourceRewardLists}

\* targets and sources of the nested-mapping cases
ZoneTargets ==
  {Map(m) : m \in {f \in [{"zone", "other", "rewards"} ->
                            TargetZones \cup {Undefined, List(<<TargetEntry("X")>>)}] :
                     /\ f["other"] \in {Undefined, Bool(TRUE)}
                     /\ f["rewards"] \in {Undefined, Num(500), List(<<TargetEntry("X")>>)}
                     /\ f["zone"] \in TargetZones \cup {Undefined}}}
ZoneSources ==
  {Map(m) : m \in {f \in [{"zone", "rewards"} ->
                            SourceZones \cup {Undefined, List(<<SourceEntry("Y")>>)}] :
                     /\ f["rewards"] \in {Undefined, List(<<SourceEntry("Y")>>)}
                     /\ f["zone"] \in SourceZones \cup {Undefined}}}

\* sources of a second merge into the same target
SecondSources ==
  {Map([zone |-> Map([a |-> Num(900), z |-> Num(900)])]),
   Map([zone |-> Map([a |-> Map([c |-> Num(500)])])]),
   Map([zone |-> Num(900), rewards |-> List(<<SourceEntry("X"), SourceEntry("Z")>>)])}

\* the identity of every mapping and list of v: the path that leads to it
IndexKey(j) == <<"1", "2", "3", "4", "5", "6", "7", "8">>[j]

RECURSIVE Label(_, _)
Label(v, path) ==
  CASE v.t = "map" ->
         [t |-> "map", m |-> [k \in DOMAIN v.m |-> Label(v.m[k], Append(path, k))],
          id |-> path]
    [] v.t = "list" ->
         [t |-> "list",
          l |-> [j \in 1..Len(v.l) |-> Label(v.l[j], Append(path, IndexKey(j)))],
          p |-> v.p, id |-> path]
    [] OTHER -> v

\* the mappings and lists found in v
RECURSIVE Objects(_)
Objects(v) ==
  CASE v.t = "map" -> {v} \cup UNION {Objects(v.m[k]) : k \in DOMAIN v.m}
    [] v.t = "list" -> {v} \cup UNION {Objects(v.l[j]) : j \in 1..Len(v.l)}
                           \cup UNION {Objects(v.p[k]) : k \in DOMAIN v.p}
    [] OTHER -> {}

\* the player counts of the merge-into-config cases
MergeCounts == {0, 11, 49}

\* an absent key is no key at all
RECURSIVE Prune(_)
Prune(v) ==
  IF v.t = "map"
    THEN Map([k \in {k \in DOMAIN v.m : v.m[k] # Undefined} |-> Prune(v.m[k])])
    ELSE v

\* ------------------------------------------------------------ file texts
\* A file's bytes: an optional byte-order mark, then a body.  The body is a
\* JSON value (the text of a mapping starts with '{', of a list with '['),
\* or text that is no JSON: empty, starting with another character
\* ("garbage"), or starting with '{' / '[' and unparsable.
Text(bom, body) == [bom |-> bom, body |-> body]
EmptyText == [t |-> "empty"]
Garbage == [t |-> "garbage"]
BadObject == [t |-> "badobj"]
BadArray == [t |-> "badarr"]
ReadError == [t |-> "readerror"]

\* rawData.toString().replace(/^﻿/, '').replace(/[\x00-\x1F\x7F-\x9F]/g, '').trim()
Sanitize(raw) == raw.body

StartsWithBrace(content) == content.t \in {"map", "badobj"}
StartsWithBracket(content) == content.t \in {"list", "badarr"}

\* JSON.parse(content): the value, or Throw
JsonParse(content) == IF content.t \in {"map", "list"} THEN content ELSE Throw

\* what JSON.stringify keeps of a value: the elements of a list, not the
\* named properties assigned onto it
RECURSIVE Serializable(_)
Serializable(v) ==
  CASE v.t = "map" -> Map([k \in DOMAIN v.m |-> Serializable(v.m[k])])
    [] v.t = "list" -> List([j \in 1..Len(v.l) |-> Serializable(v.l[j])])
    [] OTHER -> v

\* JSON.stringify(config, null, '\t') + '\n'
JsonStringify(config) == Text(FALSE, Serializable(config))

\* --------------------------------------------------------- getPlayerCount
\* a mutant of countOfContent: the Array.isArray(data) branch is missing
countOfContentObjectOnly(content) ==
  IF ~StartsWithBrace(content) /\ ~StartsWithBracket(content) THEN 0
  ELSE LET data == JsonParse(content)
       IN IF data = Throw THEN 0
          ELSE IF Truthy(Get(data, "players")) /\ IsArray(Get(data, "players"))
            THEN Len(Get(data, "players").l)
          ELSE 0

\* lines 67-84 on the sanitized content; a JSON.parse error is caught: 0
countOfContent(content) ==
  IF ~StartsWithBrace(content) /\ ~StartsWithBracket(content) THEN 0
  ELSE LET data == JsonParse(content)
       IN IF data = Throw THEN 0
          ELSE IF IsArray(data) THEN Len(data.l)
          ELSE IF Truthy(Get(data, "players")) /\ IsArray(Get(data, "players"))
            THEN Len(Get(data, "players").l)
          ELSE 0

\* getPlayerCount for a PlayerList file: accessible or not, and what
\* readFile yields (a text, or ReadError)
getPlayerCount(accessible, read) ==
  IF ~accessible THEN 0
  ELSE IF read = ReadError THEN 0
  ELSE countOfContent(Sanitize(read))

\* what the PlayerList file holds: a bare list, the players list of an
\* object, or neither
ListOfFile(accessible, read) ==
  IF ~accessible \/ read = ReadError THEN Undefined
  ELSE IF read.body.t = "list" THEN read.body
  ELSE IF read.body.t = "map" /\ "players" \in DOMAIN read.body.m
          /\ read.body.m["players"].t = "list"
    THEN read.body.m["players"]
  ELSE Undefined

\* ------------------------------------------------------- bounded inputs
\* how many updateSettings calls may be in flight at once
MaxInFlight == 2

Threshold == 50
NoCount == -1

\* the player counts a PlayerList file may hold
PlayerCounts == {0, 10, 11, 50}

Players(n) == List([j \in 1..n |-> Map([name |-> Str("p")])])

PlayerListReads ==
  {ReadError, Text(FALSE, EmptyText), Text(FALSE, Garbage), Text(TRUE, BadObject),
   Text(FALSE, BadArray), Text(FALSE, Map([server |-> Str("koth")])),
   Text(FALSE, Map([players |-> Num(1100)]))}
  \cup {Text(b, Players(n)) : b \in BOOLEAN, n \in PlayerCounts}
  \cup {Text(FALSE, Map([players |-> Players(n)])) : n \in PlayerCounts}

\* the documents ServerSettings.json may hold at start
CustomReward == Map([name |-> Str("Custom"), xp |-> Num(500)])
OldBotReward == Map([name |-> Str("Bot Killed"), xp |-> Num(100), keep |-> Num(700)])

FullSettings ==
  Map(("zone" :> Map(("move interval" :> Num(500)) @@ ("custom" :> Num(100))))
      @@ ("rewards" :> List(<<CustomReward, OldBotReward>>))
      @@ ("keep" :> Str("k")))

ConfigDocs ==
  {Map([other |-> Bool(TRUE)]),
   Map([settings |-> FullSettings, other |-> Bool(TRUE)]),
   Map([settings |-> Map([zone |-> Num(500)])]),
   Map([settings |-> Map([zone |-> List(<<Num(100)>>), economy |-> Num(0),
                          rewards |-> List(<<Null>>)])]),
   Map([settings |-> List(<<Num(100)>>), other |-> Bool(TRUE)]),
   Map([settings |-> Str("s")])}

ConfigTexts ==
  {Text(FALSE, Garbage), Text(FALSE, BadObject)}
  \cup {Text(FALSE, d) : d \in ConfigDocs}
  \cup {Text(TRUE, Map([settings |-> FullSettings, other |-> Bool(TRUE)]))}

\* documents by the shape of settings and of its zone, economy and rewards:
\* absent, a scalar, a list or a mapping
ZoneShapes ==
  {Undefined, Num(500), Num(0), List(<<Num(100)>>),
   Map(("move interval" :> Num(500)) @@ ("custom" :> Num(100)))}
EconomyShapes ==
  {Undefined, Str("x"), List(<< >>),
   Map(("$ multiplier" :> Num(900)) @@ ("tax" :> Num(100)))}
RewardsShapes ==
  {Undefined, Num(500), Map([a |-> Num(100)]), List(<< >>),
   List(<<CustomReward, OldBotReward>>)}
SettingsShapes ==
  {Null, Num(0), Num(500), Bool(FALSE), Str(""), List(<< >>), List(<<Num(100)>>)}

ShapeDocs ==
  {Prune(Map([settings |-> Map(("zone" :> z) @@ ("economy" :> e) @@ ("rewards" :> r))])) :
     z \in ZoneShapes, e \in EconomyShapes, r \in RewardsShapes}
  \cup {Map([settings |-> s, other |-> Bool(TRUE)]) : s \in SettingsShapes}

\* ------------------------------------------------------------------ state
VARIABLES
  lastPlayerCount,  \* this.lastPlayerCount (NoCount is null)
  configFile,       \* the bytes of ServerSettings.json
  lastWriter,       \* the count of the call whose write was carried out last (history)
  cycles,           \* the updateSettings calls in flight, by slot
  prev,             \* the updateSettings call that returned last (history)
  prev2,            \* the call that returned before it (history)
  snap,             \* lastPlayerCount and the file when the call in flight was
                    \* made (history)
  mountPc,          \* where mount() stands
  timer,            \* the interval of this.updateIntervalId
  unmounted,        \* unmount() has returned
  mTarget,          \* deepMerge on its own: the target (or the config document)
  mSource,          \* the source, its objects labelled with their identities
  mCount,           \* the player count of a merge into a config document
  mResult,          \* what the call returned
  mPhase            \* "input", "merged", "merged2"; "config", "written"

mvars == <<mTarget, mSource, mCount, mResult, mPhase>>
pvars == <<lastPlayerCount, configFile, lastWriter, cycles, prev, prev2, snap, mountPc, timer, unmounted>>
vars == <<lastPlayerCount, configFile, lastWriter, cycles, prev, prev2, snap, mountPc, timer, unmounted,
          mTarget, mSource, mCount, mResult, mPhase>>

Slot == 1..MaxInFlight

\* a call of updateSettings: where it stands (pc), the count it observed
\* and whether the PlayerList file held a list to count (listed), the level
\* it resolved, the text it hands to writeFile, how it ended
\* (out), and what it did: config reads, writeFile calls, a write carried
\* out, broadcasts, the message, the document it parsed
FreeCycle ==
  [pc |-> "free", count |-> NoCount, level |-> 0, pending |-> Text(FALSE, EmptyText),
   listed |-> TRUE, out |-> "none", reads |-> 0, writes |-> 0, wrote |-> FALSE, bcasts |-> 0,
   msg |-> << >>, readDoc |-> Undefined]

\* The history variables follow the calls that run alone: snap is valid
\* while the one call in flight has met no other call, prev is the latest
\* call that returned so and prev2 the one before it; all are forgotten
\* when calls overlap.
NoSnap == [valid |-> FALSE, last |-> NoCount, file |-> Text(FALSE, EmptyText)]

\* a call that has met another call: whether its count came from a list
\* is forgotten
Forget(c) == [c EXCEPT !.listed = TRUE]

\* what is remembered of a call that has returned
Returned(c) == [c EXCEPT !.readDoc = Undefined]
Earlier(c) == [count |-> c.count, out |-> c.out]

InFlight(i) == cycles[i].pc # "free"

Finish(c, out) == [c EXCEPT !.pc = "done", !.out = out]

\* The calls in flight are told apart by nothing but their own state: a
\* slot is a place to keep one, so of the arrangements of the same calls
\* over the slots one is kept.
Arranged(cs) ==
  CHOOSE g \in {[i \in Slot |-> cs[p[i]]] : p \in Permutations(Slot)} : TRUE

\* the call in slot i moves on to c; a call that has returned leaves its slot
Commit(i, c) ==
  IF c.pc = "done"
    THEN /\ prev' = IF snap.valid THEN Returned(c) ELSE FreeCycle
         /\ prev2' = IF snap.valid THEN Earlier(prev) ELSE Earlier(FreeCycle)
         /\ cycles' = Arranged([cycles EXCEPT ![i] = FreeCycle])
    ELSE /\ cycles' = Arranged([cycles EXCEPT ![i] = c])
         /\ UNCHANGED <<prev, prev2>>

\* --------------------------------------------------------- updateSettings
\* the call in slot i with the count it got from getPlayerCount; whether
\* the count came from a list is remembered of a call that runs alone
Observed(i, playerCount, listed) ==
  [cycles[i] EXCEPT !.count = playerCount, !.listed = listed \/ ~snap.valid]

\* a mutant of AfterCount: the comparison with lastPlayerCount is left out
AfterCountNoSameCheck(i, playerCount, listed) ==
  IF playerCount >= Threshold
    THEN /\ lastPlayerCount' = NoCount
         /\ Commit(i, Finish(Observed(i, playerCount, listed), "skip_high"))
  ELSE /\ Commit(i, [Observed(i, playerCount, listed) EXCEPT !.pc = "cfg_access"])
       /\ UNCHANGED lastPlayerCount

\* a mutant of AfterCount: the comparison is between the levels of the
\* count and of lastPlayerCount
AfterCountByLevel(i, playerCount, listed) ==
  IF playerCount >= Threshold
    THEN /\ lastPlayerCount' = NoCount
         /\ Commit(i, Finish(Observed(i, playerCount, listed), "skip_high"))
  ELSE IF lastPlayerCount # NoCount
          /\ determineLevel(playerCount) = determineLevel(lastPlayerCount)
    THEN /\ Commit(i, Finish(Observed(i, playerCount, listed), "skip_same"))
         /\ UNCHANGED lastPlayerCount
  ELSE /\ Commit(i, [Observed(i, playerCount, listed) EXCEPT !.pc = "cfg_access"])
       /\ UNCHANGED lastPlayerCount

\* a mutant of AfterCount: the count is not compared with the threshold
AfterCountNoThreshold(i, playerCount, listed) ==
  IF playerCount = lastPlayerCount
    THEN /\ Commit(i, Finish(Observed(i, playerCount, listed), "skip_same"))
         /\ UNCHANGED lastPlayerCount
  ELSE /\ Commit(i, [Observed(i, playerCount, listed) EXCEPT !.pc = "cfg_access"])
       /\ UNCHANGED lastPlayerCount

\* lines 136-152: the code between getPlayerCount's result and fs.access
AfterCount(i, playerCount, listed) ==
  IF playerCount >= Threshold
    THEN /\ lastPlayerCount' = NoCount
         /\ Commit(i, Finish(Observed(i, playerCount, listed), "skip_high"))
  ELSE IF playerCount = lastPlayerCount
    THEN /\ Commit(i, Finish(Observed(i, playerCount, listed), "skip_same"))
         /\ UNCHANGED lastPlayerCount
  ELSE /\ Commit(i, [Observed(i, playerCount, listed) EXCEPT !.pc = "cfg_access"])
       /\ UNCHANGED lastPlayerCount

\* fs.access(this.playerListPath) settles
PlayerListAccess(i) ==
  /\ cycles[i].pc = "pl_access"
  /\ \E ok \in BOOLEAN :
       IF ok
         THEN /\ Commit(i, [cycles[i] EXCEPT !.pc = "pl_read"])
              /\ UNCHANGED lastPlayerCount
         ELSE AfterCount(i, getPlayerCount(FALSE, ReadError), FALSE)
  /\ UNCHANGED <<configFile, lastWriter, snap, mountPc, timer, unmounted, mvars>>

\* fs.readFile(this.playerListPath) settles
PlayerListRead(i) ==
  /\ cycles[i].pc = "pl_read"
  /\ \E read \in PlayerListReads :
       AfterCount(i, getPlayerCount(TRUE, read), ListOfFile(TRUE, read) # Undefined)
  /\ UNCHANGED <<configFile, lastWriter, snap, mountPc, timer, unmounted, mvars>>

\* fs.access(this.configPath, R_OK | W_OK) settles
ConfigAccess(i) ==
  /\ cycles[i].pc = "cfg_access"
  /\ \E ok \in BOOLEAN :
       Commit(i, IF ok THEN [cycles[i] EXCEPT !.pc = "cfg_read"]
                       ELSE Finish(cycles[i], "no_access"))
  /\ UNCHANGED <<lastPlayerCount, configFile, lastWriter, snap, mountPc, timer, unmounted, mvars>>

\* lines 182-185: config.settings replaced by {} when missing or no object
EnsureSettings(config) ==
  IF ~Truthy(Get(config, "settings")) \/ ~IsObjectType(Get(config, "settings"))
    THEN Set(config, "settings", Map(EmptyMap))
    ELSE config

\* lines 187-192: the config with the level's settings merged in, or Throw
MergedConfig(config, playerCount) ==
  LET currentLevel == determineLevel(playerCount)
      newSettings == getLevelSettings(currentLevel)
      merged == deepMerge(Get(config, "settings"), newSettings)
  IN IF merged = Throw THEN Throw ELSE Set(config, "settings", merged)

\* lines 161-196 on what readFile yielded: the call after them
AfterRead(c, read) ==
  IF read = ReadError THEN Finish(c, "read_fail")
  ELSE LET content == Sanitize(read)
           r == [c EXCEPT !.reads = @ + 1]
       IN IF ~StartsWithBrace(content) THEN Finish(r, "bad_start")
          ELSE IF JsonParse(content) = Throw THEN Finish(r, "bad_json")
          ELSE LET config == EnsureSettings(JsonParse(content))
                   merged == MergedConfig(config, c.count)
               IN IF merged = Throw
                    THEN Finish([r EXCEPT !.readDoc = JsonParse(content)], "merge_throw")
                    ELSE [r EXCEPT !.pc = "cfg_write",
                                   !.level = determineLevel(c.count),
                                   !.readDoc = JsonParse(content),
                                   !.pending = JsonStringify(merged),
                                   !.writes = @ + 1]

\* a mutant of ConfigRead: lastPlayerCount is set before the write
ConfigReadRemembersEarly(i) ==
  /\ cycles[i].pc = "cfg_read"
  /\ \E read \in {ReadError, configFile} :
       /\ Commit(i, AfterRead(cycles[i], read))
       /\ lastPlayerCount' = IF AfterRead(cycles[i], read).pc = "cfg_write"
                               THEN cycles[i].count ELSE lastPlayerCount
  /\ UNCHANGED <<configFile, lastWriter, snap, mountPc, timer, unmounted, mvars>>

\* fs.readFile(this.configPath) settles
ConfigRead(i) ==
  /\ cycles[i].pc = "cfg_read"
  /\ \E read \in {ReadError, configFile} : Commit(i, AfterRead(cycles[i], read))
  /\ UNCHANGED <<lastPlayerCount, configFile, lastWriter, snap, mountPc, timer, unmounted, mvars>>

\* fs.writeFile(this.configPath, ...) is carried out, or fails
ConfigWrite(i) ==
  /\ cycles[i].pc = "cfg_write"
  /\ \E ok \in BOOLEAN :
       IF ok
         THEN /\ configFile' = cycles[i].pending
              /\ lastWriter' = cycles[i].count
              /\ Commit(i, [cycles[i] EXCEPT !.pc = "write_ok", !.wrote = TRUE,
                                             !.readDoc = Undefined])
         ELSE /\ Commit(i, [cycles[i] EXCEPT !.pc = "write_err"])
              /\ UNCHANGED <<configFile, lastWriter>>
  /\ UNCHANGED <<lastPlayerCount, snap, mountPc, timer, unmounted, mvars>>

\* a mutant of AfterWrite: the return after a failed write is missing
AfterWriteNoReturn(i) ==
  /\ cycles[i].pc \in {"write_ok", "write_err"}
  /\ lastPlayerCount' = cycles[i].count
  /\ Commit(i, [cycles[i] EXCEPT !.pc = "broadcast", !.bcasts = @ + 1,
                                 !.msg = <<cycles[i].count, cycles[i].level>>])
  /\ UNCHANGED <<configFile, lastWriter, snap, mountPc, timer, unmounted, mvars>>

\* lines 197-208: the code after the awaited writeFile
AfterWrite(i) ==
  /\ cycles[i].pc \in {"write_ok", "write_err"}
  /\ IF cycles[i].pc = "write_err"
       THEN /\ Commit(i, Finish(cycles[i], "write_fail"))
            /\ UNCHANGED lastPlayerCount
       ELSE /\ lastPlayerCount' = cycles[i].count
            /\ Commit(i, [cycles[i] EXCEPT !.pc = "broadcast", !.bcasts = @ + 1,
                                           !.msg = <<cycles[i].count, cycles[i].level>>])
  /\ UNCHANGED <<configFile, lastWriter, snap, mountPc, timer, unmounted, mvars>>

\* a mutant of Broadcast: a failed broadcast makes the call forget the count
BroadcastRollback(i) ==
  /\ cycles[i].pc = "broadcast"
  /\ \E ok \in BOOLEAN :
       /\ Commit(i, Finish(cycles[i], IF ok THEN "updated" ELSE "bcast_fail"))
       /\ lastPlayerCount' = IF ok THEN lastPlayerCount ELSE NoCount
  /\ UNCHANGED <<configFile, lastWriter, snap, mountPc, timer, unmounted, mvars>>

\* this.server.rcon.broadcast(msg) settles; an error is caught
Broadcast(i) ==
  /\ cycles[i].pc = "broadcast"
  /\ \E ok \in BOOLEAN :
       Commit(i, Finish(cycles[i], IF ok THEN "updated" ELSE "bcast_fail"))
  /\ UNCHANGED <<lastPlayerCount, configFile, lastWriter, snap, mountPc, timer, unmounted, mvars>>

\* a call of updateSettings: it runs up to the fs.access of getPlayerCount
CallUpdateSettings(i) ==
  /\ ~InFlight(i)
  /\ \A j \in Slot : j < i => InFlight(j)
  /\ IF \A j \in Slot : ~InFlight(j)
       THEN /\ cycles' = Arranged([cycles EXCEPT ![i].pc = "pl_access"])
            /\ snap' = [valid |-> TRUE, last |-> lastPlayerCount, file |-> configFile]
            /\ UNCHANGED <<prev, prev2>>
       ELSE /\ cycles' = Arranged([j \in Slot |->
                          IF j = i THEN [cycles[j] EXCEPT !.pc = "pl_access"]
                                   ELSE Forget(cycles[j])])
            /\ snap' = NoSnap
            /\ prev' = FreeCycle
            /\ prev2' = Earlier(FreeCycle)

\* ---------------------------------------------------------- mount, unmount
\* mount() is called: the test broadcast is awaited
Mount ==
  /\ mountPc = "init"
  /\ mountPc' = "m_bcast"
  /\ UNCHANGED <<lastPlayerCount, configFile, lastWriter, cycles, prev, prev2, snap, timer, unmounted, mvars>>

\* the test broadcast settles (an error is caught): the initial updateSettings
MountBroadcast ==
  /\ mountPc = "m_bcast"
  /\ mountPc' = "m_update"
  /\ CallUpdateSettings(1)
  /\ UNCHANGED <<lastPlayerCount, configFile, lastWriter, timer, unmounted, mvars>>

\* the initial updateSettings has returned: setInterval
MountInterval ==
  /\ mountPc = "m_update"
  /\ \A i \in Slot : ~InFlight(i)
  /\ mountPc' = "mounted"
  /\ timer' = "active"
  /\ UNCHANGED <<lastPlayerCount, configFile, lastWriter, cycles, prev, prev2, snap, unmounted, mvars>>

\* the interval fires: updateSettings is called and not awaited
Tick ==
  /\ timer = "active"
  /\ \E i \in Slot : CallUpdateSettings(i)
  /\ UNCHANGED <<lastPlayerCount, configFile, lastWriter, mountPc, timer, unmounted, mvars>>

\* unmount(): clearInterval(this.updateIntervalId), a no-op while no
\* interval was installed
Unmount ==
  /\ mountPc # "init"
  /\ ~unmounted
  /\ unmounted' = TRUE
  /\ timer' = IF timer = "active" THEN "cleared" ELSE timer
  /\ UNCHANGED <<lastPlayerCount, configFile, lastWriter, cycles, prev, prev2, snap, mountPc, mvars>>

\* ------------------------------------------------------- specifications
Init ==
  /\ lastPlayerCount = NoCount
  /\ configFile \in ConfigTexts
  /\ lastWriter = NoCount
  /\ cycles = [i \in Slot |-> FreeCycle]
  /\ prev = FreeCycle
  /\ prev2 = Earlier(FreeCycle)
  /\ snap = NoSnap
  /\ mountPc = "init"
  /\ timer = "none"
  /\ unmounted = FALSE
  /\ mTarget = Undefined /\ mSource = Undefined /\ mCount = 0
  /\ mResult = Undefined /\ mPhase = "off"

Step(i) ==
  \/ PlayerListAccess(i)
  \/ PlayerListRead(i)
  \/ ConfigAccess(i)
  \/ ConfigRead(i)
  \/ ConfigWrite(i)
  \/ AfterWrite(i)
  \/ Broadcast(i)

Next ==
  \/ Mount
  \/ MountBroadcast
  \/ MountInterval
  \/ Tick
  \/ Unmount
  \/ \E i \in Slot : Step(i)

\* the plugin as the code schedules it: the interval fires whatever the
\* earlier calls are doing
Spec == Init /\ [][Next]_vars

\* the interval fires only while no call is in flight (every call ends
\* within the 90 s period)
TickSeq == (\A i \in Slot : ~InFlight(i)) /\ Tick

NextSeq ==
  \/ Mount
  \/ MountBroadcast
  \/ MountInterval
  \/ TickSeq
  \/ Unmount
  \/ \E i \in Slot : Step(i)

SeqSpec == Init /\ [][NextSeq]_vars

\* deepMerge on its own, over bounded targets and sources, and the merge
\* of updateSettings over the config documents
MergeInit ==
  /\ \/ /\ mTarget \in RewardTargets
        /\ mSource \in {Label(x, <<"src">>) : x \in RewardSources}
        /\ mCount = 0 /\ mPhase = "input"
     \/ /\ mTarget \in {Prune(x) : x \in ZoneTargets}
        /\ mSource \in {Label(Prune(x), <<"src">>) : x \in ZoneSources}
        /\ mCount = 0 /\ mPhase = "input"
     \/ /\ mTarget \in ConfigDocs \cup ShapeDocs
        /\ mSource = Undefined
        /\ mCount \in MergeCounts /\ mPhase = "config"
  /\ mResult = Undefined
  /\ lastPlayerCount = NoCount
  /\ configFile = Text(FALSE, EmptyText)
  /\ lastWriter = NoCount
  /\ cycles = [i \in Slot |-> FreeCycle]
  /\ prev = FreeCycle
  /\ prev2 = Earlier(FreeCycle)
  /\ snap = NoSnap
  /\ mountPc = "init"
  /\ timer = "none"
  /\ unmounted = FALSE

CallDeepMerge ==
  /\ mPhase = "input"
  /\ mResult' = deepMerge(mTarget, mSource)
  /\ mPhase' = "merged"
  /\ UNCHANGED <<mTarget, mSource, mCount, pvars>>

\* a later deepMerge of another source into the target already merged
CallDeepMergeAgain ==
  /\ mPhase = "merged"
  /\ mResult # Throw
  /\ \E second \in SecondSources : mResult' = deepMerge(mResult, second)
  /\ mPhase' = "merged2"
  /\ UNCHANGED <<mTarget, mSource, mCount, pvars>>

\* lines 174-196 on a parsed document: the document that writeFile is given
CallMergedConfig ==
  /\ mPhase = "config"
  /\ mResult' = LET merged == MergedConfig(EnsureSettings(mTarget), mCount)
                IN IF merged = Throw THEN Throw ELSE JsonStringify(merged).body
  /\ mPhase' = "written"
  /\ UNCHANGED <<mTarget, mSource, mCount, pvars>>

MergeNext ==
  \/ CallDeepMerge
  \/ CallDeepMergeAgain
  \/ CallMergedConfig

MergeSpec == MergeInit /\ [][MergeNext]_vars

\* ------------------------------------------------------------- claims
Wrote(out) == out \in {"updated", "bcast_fail"}
NoneInFlight == \A i \in Slot : ~InFlight(i)
NoConfigIO(c) == c.reads = 0 /\ c.writes = 0 /\ c.bcasts = 0 /\ ~c.wrote

\* C1: idempotence. When a call that observed count c has written the
\* config and the next call, made after it returned, observes c again,
\* that second call skips as unchanged: it reads no config, writes none and
\* broadcasts nothing, so the two calls make exactly one write.
C1_Idempotence ==
  (Wrote(prev2.out) /\ prev.out # "none" /\ prev.count = prev2.count)
    => (prev.out = "skip_same" /\ NoConfigIO(prev))

C1_Witness ==
  /\ prev2.out = "updated"
  /\ prev.out = "skip_same"
  /\ prev.count = prev2.count
  /\ prev.count = 11

\* C2 (as claimed): a call that observes a count >= 50 reads and writes no
\* config and leaves lastPlayerCount null; the next call, if it observes a
\* count < 50 and finds the config accessible, readable and well-formed
\* JSON, calls writeFile.
C2_ThresholdCrossing ==
  /\ (prev.out = "skip_high" /\ NoneInFlight)
       => (NoConfigIO(prev) /\ lastPlayerCount = NoCount)
  /\ (prev2.out = "skip_high" /\ prev.out # "none" /\ prev.count < Threshold
        /\ prev.out \notin {"no_access", "read_fail", "bad_start", "bad_json"})
       => prev.writes = 1

\* what does hold of the threshold crossing: the call after a count >= 50
\* never skips as unchanged, and fails to call writeFile only when the
\* merge throws
C2_ExceptMergeThrow ==
  /\ (prev.out = "skip_high" /\ NoneInFlight)
       => (NoConfigIO(prev) /\ lastPlayerCount = NoCount)
  /\ (prev2.out = "skip_high" /\ prev.out # "none" /\ prev.count < Threshold
        /\ prev.out \notin {"no_access", "read_fail", "bad_start", "bad_json", "merge_throw"})
       => prev.writes = 1

FailedOuts == {"no_access", "read_fail", "bad_start", "bad_json", "merge_throw", "write_fail"}

C4_Serialized == Cardinality({i \in Slot : InFlight(i)}) <= 1

\* C9: a failed notification never rolls back. When the broadcast of a
\* call fails after its write was carried out, the written text is on disk
\* and lastPlayerCount is that call's count once it has returned, and a
\* following call that observes the same count skips as unchanged.
C9_NoRollback ==
  /\ (prev.out = "bcast_fail" /\ snap.valid /\ NoneInFlight)
       => (configFile = prev.pending /\ lastPlayerCount = prev.count /\ prev.wrote)
  /\ (prev2.out = "bcast_fail" /\ prev.out # "none" /\ prev.count = prev2.count)
       => (prev.out = "skip_same" /\ NoConfigIO(prev))

C9_Witness ==
  /\ prev2.out = "bcast_fail"
  /\ prev.out = "skip_same"
  /\ prev.count = prev2.count
  /\ lastPlayerCount = prev.count

Calls == {cycles[i] : i \in Slot} \cup {prev}

\* C10: one notification per successful update. Every call attempts at
\* most one broadcast; it has attempted one exactly when it got past its
\* awaited writeFile with the write carried out; the message holds the
\* call's count c and determineLevel(c); a call that skipped or failed has
\* attempted none.
C10_OneNotification ==
  \A c \in Calls :
    /\ c.bcasts <= 1
    /\ c.bcasts = 1 => (c.wrote /\ c.msg = <<c.count, determineLevel(c.count)>>)
    /\ c.pc \in {"broadcast", "done"} => (c.bcasts = 1 <=> c.wrote)
    /\ c.pc \notin {"broadcast", "done"} => c.bcasts = 0
    /\ c.out \in FailedOuts \cup {"skip_high", "skip_same"} => c.bcasts = 0

C10_Witness ==
  /\ prev.out = "updated"
  /\ prev.bcasts = 1
  /\ prev.msg = <<11, 2>>

\* ------------------------------------------------ claims about deepMerge
\* what a merge of mappings must keep: every key of t that s lacks, with
\* its value, and the same inside every mapping held by both
RECURSIVE Preserves(_, _, _)
Preserves(t, s, r) ==
  (IsMap(t) /\ IsMap(s)) =>
    /\ IsMap(r)
    /\ \A k \in DOMAIN t.m :
         /\ k \notin DOMAIN s.m => (k \in DOMAIN r.m /\ r.m[k] = t.m[k])
         /\ (k \in DOMAIN s.m /\ IsMap(t.m[k]) /\ IsMap(s.m[k]))
              => (k \in DOMAIN r.m /\ Preserves(t.m[k], s.m[k], r.m[k]))

\* C5: merge preserves foreign keys. After deepMerge(target, source) has
\* returned, every key of target that source lacks is still there with its
\* value, recursively inside the mappings held by both; and the document
\* that a call of updateSettings hands to writeFile agrees with the document
\* it parsed on every top-level key but settings, and on every key of a
\* settings mapping that the level's profile does not name.
C5_ForeignKeysKept ==
  /\ (mPhase = "merged" /\ mResult # Throw) => Preserves(mTarget, mSource, mResult)
  /\ (mPhase = "written" /\ mResult # Throw) =>
       /\ \A k \in DOMAIN mTarget.m \ {"settings"} :
            k \in DOMAIN mResult.m /\ mResult.m[k] = mTarget.m[k]
       /\ Preserves(Get(mTarget, "settings"),
                    getLevelSettings(determineLevel(mCount)),
                    Get(mResult, "settings"))

C5_Witness ==
  /\ mPhase = "written"
  /\ mTarget = Map([settings |-> FullSettings, other |-> Bool(TRUE)])
  /\ mResult # Throw
  /\ Get(Get(Get(mResult, "settings"), "zone"), "custom") = Num(100)
  /\ Get(Get(Get(mResult, "settings"), "zone"), "move interval") = Num(30000)
  /\ Get(mResult, "other") = Bool(TRUE)

\* the reward lists of a merge in which target and source both hold one
BothRewardLists ==
  /\ mPhase = "merged"
  /\ mResult # Throw
  /\ IsArray(Get(mTarget, "rewards"))
  /\ IsArray(Get(mSource, "rewards"))

Named(e) == Truthy(Get(e, "name"))
SameName(a, b) == Named(a) /\ Named(b) /\ Get(a, "name") = Get(b, "name")
UniqueNames(l) ==
  \A i, j \in 1..Len(l) : (i # j /\ Named(l[i])) => ~SameName(l[i], l[j])

MatchesNone(e, l) == \A i \in 1..Len(l) : ~SameName(e, l[i])

\* copies of the entries of sl, in order, whose name matches no entry of tl;
\* with needName, only of those that have a name
RECURSIVE Unmatched(_, _, _)
Unmatched(sl, tl, needName) ==
  IF sl = << >> THEN << >>
  ELSE IF MatchesNone(Head(sl), tl) /\ (needName => Named(Head(sl)))
    THEN <<SpreadCopy(Head(sl))>> \o Unmatched(Tail(sl), tl, needName)
    ELSE Unmatched(Tail(sl), tl, needName)

\* parts (1)-(3) of the reward-list merge: the target entries keep their
\* places; one whose name matches a source entry has that entry's fields
\* written over its own; the others are unchanged
TargetEntriesMerged(tl, sl, rl) ==
  /\ Len(rl) >= Len(tl)
  /\ \A i \in 1..Len(tl) :
       IF \E j \in 1..Len(sl) : SameName(tl[i], sl[j])
         THEN \E j \in 1..Len(sl) :
                SameName(tl[i], sl[j]) /\ rl[i] = Spread2(tl[i], sl[j])
         ELSE rl[i] = tl[i]

\* C6 (as claimed): with names unique within each list, the target entries
\* are merged in place, and every source entry whose name matches no target
\* entry is appended at the end, in source order.
C6_RewardMergeAsClaimed ==
  (BothRewardLists /\ UniqueNames(mTarget.m.rewards.l) /\ UniqueNames(mSource.m.rewards.l)) =>
    LET tl == mTarget.m.rewards.l
        sl == mSource.m.rewards.l
        rl == mResult.m.rewards.l
    IN /\ TargetEntriesMerged(tl, sl, rl)
       /\ SubSeq(rl, Len(tl) + 1, Len(rl)) = Unmatched(sl, tl, FALSE)

\* C6 (amended): with names unique within each list, the target entries are
\* merged in place, and every source entry that has a name, and whose name
\* matches no target entry, is appended at the end, in source order; a
\* source entry without a name is left out.
C6_RewardMerge ==
  (BothRewardLists /\ UniqueNames(mTarget.m.rewards.l) /\ UniqueNames(mSource.m.rewards.l)) =>
    LET tl == mTarget.m.rewards.l
        sl == mSource.m.rewards.l
        rl == mResult.m.rewards.l
    IN /\ TargetEntriesMerged(tl, sl, rl)
       /\ SubSeq(rl, Len(tl) + 1, Len(rl)) = Unmatched(sl, tl, TRUE)

C6_Witness ==
  /\ BothRewardLists
  /\ mTarget.m.rewards.l = <<TargetEntry("X"), Num(700)>>
  /\ Len(mSource.m.rewards.l) = 2
  /\ ~Named(mSource.m.rewards.l[1])
  /\ mResult.m.rewards.l =
       <<TargetEntry("X"), Num(700), SourceEntry("Y")>>

\* C7 (as claimed): deepMerge returns for every target and source
C7_MergeTotal == mPhase \in {"merged", "merged2"} => mResult # Throw

NumInFlight == Cardinality({i \in Slot : InFlight(i)})

\* C11 (as claimed): shutdown stops the timer. Once unmount has returned,
\* no step starts an updateSettings call, whether unmount was called after
\* mount returned or while mount was still awaiting its test broadcast or
\* its initial updateSettings.
C11_NoCallAfterUnmount == [][unmounted => NumInFlight' <= NumInFlight]_vars

\* what does hold of unmount: an interval already installed is cleared, so
\* a call started after unmount comes from mount() itself or from an
\* interval mount() installed after unmount had returned
C11_ClearsInstalledTimer ==
  [][(unmounted /\ timer = "cleared") => NumInFlight' <= NumInFlight]_vars

\* ------------------------------------- the functions of a call on their own
\* determineLevel and getLevelSettings over the counts 0..MaxCount, and
\* getPlayerCount over the states of the PlayerList file
MaxCount == 110

PlayerListFiles ==
  PlayerListReads
  \cup {Text(FALSE, Map([players |-> Null])),
        Text(FALSE, Map([players |-> Map([a |-> Players(1)])])),
        Text(TRUE, Map([players |-> Players(11), server |-> Str("koth")])),
        Text(FALSE, List(<<Num(100), Null, Players(1)>>))}

FnInit ==
  /\ \/ /\ mCount \in 0..MaxCount
        /\ mTarget = Undefined /\ mSource = Undefined
        /\ mPhase = "count"
     \/ /\ mCount = 0
        /\ mTarget \in PlayerListFiles
        /\ mSource \in {Bool(TRUE), Bool(FALSE)}
        /\ mPhase = "playerlist"
  /\ mResult = Undefined
  /\ lastPlayerCount = NoCount
  /\ configFile = Text(FALSE, EmptyText)
  /\ lastWriter = NoCount
  /\ cycles = [i \in Slot |-> FreeCycle]
  /\ prev = FreeCycle
  /\ prev2 = Earlier(FreeCycle)
  /\ snap = NoSnap
  /\ mountPc = "init"
  /\ timer = "none"
  /\ unmounted = FALSE

\* this.determineLevel(playerCount)
CallDetermineLevel ==
  /\ mPhase = "count"
  /\ mResult' = determineLevel(mCount)
  /\ mPhase' = "level"
  /\ UNCHANGED <<mTarget, mSource, mCount, pvars>>

\* this.getLevelSettings(currentLevel)
CallGetLevelSettings ==
  /\ mPhase = "level"
  /\ mSource' = getLevelSettings(mResult)
  /\ mPhase' = "profile"
  /\ UNCHANGED <<mTarget, mCount, mResult, pvars>>

\* await this.getPlayerCount(): access and readFile settle as the file is
CallGetPlayerCount ==
  /\ mPhase = "playerlist"
  /\ mResult' = getPlayerCount(mSource.b, mTarget)
  /\ mPhase' = "counted"
  /\ UNCHANGED <<mTarget, mSource, mCount, pvars>>

FnNext ==
  \/ CallDetermineLevel
  \/ CallGetLevelSettings
  \/ CallGetPlayerCount

FnSpec == FnInit /\ [][FnNext]_vars

\* the least integer k with 10 * k >= c, for a count c >= 0
Ceil10(c) == CHOOSE k \in 0..c : 10 * k >= c /\ 10 * (k - 1) < c

\* C12: level formula. For every count c >= 0, determineLevel(c) is
\* min(max(1, ceil(c / 10)), 10): an integer in 1..10, no less than the
\* level of any smaller count; 0 -> 1, 10 -> 1, 11 -> 2, 95 -> 10.
C12_LevelFormula ==
  mPhase = "level" =>
    /\ mResult \in 1..10
    /\ mResult = (IF Ceil10(mCount) < 1 THEN 1
                  ELSE IF Ceil10(mCount) > 10 THEN 10 ELSE Ceil10(mCount))
    /\ \A c \in 0..mCount : determineLevel(c) <= mResult
    /\ (mCount = 0 => mResult = 1)
    /\ (mCount = 10 => mResult = 1)
    /\ (mCount = 11 => mResult = 2)
    /\ (mCount = 95 => mResult = 10)

C12_Witness == mPhase = "level" /\ mCount = 95 /\ mResult = 10

\* C13: the player-count provider never fails. Whatever the PlayerList
\* file is (missing or unreadable, empty, not starting with '{' or '[',
\* unparsable, an object without a players list, a bare list, an object
\* with a players list), getPlayerCount returns a non-negative integer: the
\* length of the bare list or of the players list, 0 in every other case.
C13_CountNeverFails ==
  mPhase = "counted" =>
    /\ mResult \in 0..(Threshold + 1)
    /\ mResult = (IF ListOfFile(mSource.b, mTarget) = Undefined THEN 0
                  ELSE Len(ListOfFile(mSource.b, mTarget).l))

C13_Witness ==
  /\ mPhase = "counted"
  /\ mSource.b
  /\ mTarget = Text(TRUE, Players(11))
  /\ mResult = 11

\* ------------------------------------- claims about the document written
SettingsRead == Get(mTarget, "settings")
SettingsWritten == Get(mResult, "settings")
Profile == getLevelSettings(determineLevel(mCount))

HoldsProfileKeys(settings) ==
  IsMap(settings) /\ DOMAIN Profile.m \subseteq DOMAIN settings.m

\* C14 (as claimed): the settings subtree is normalised on read. For every
\* parsed document whose settings is absent, null, a scalar or a list, the
\* document handed to writeFile has a settings mapping that holds every
\* key of the level's profile.
C14_SettingsNormalised ==
  (mPhase = "written" /\ ~IsMap(SettingsRead)) =>
    (mResult # Throw /\ HoldsProfileKeys(SettingsWritten))

\* what does hold: settings absent, null or a scalar is replaced by an
\* empty mapping; a list is kept and written back as the list it was
C14_ExceptList ==
  /\ (mPhase = "written" /\ ~IsMap(SettingsRead) /\ ~IsArray(SettingsRead)) =>
       (mResult # Throw /\ HoldsProfileKeys(SettingsWritten))
  /\ (mPhase = "written" /\ IsArray(SettingsRead)) =>
       (mResult # Throw /\ SettingsWritten = List(SettingsRead.l))

\* ------------------------------------------- claims about getLevelSettings
\* the interpolated fields of the profile held in mSource, each with its
\* anchors (in hundredths): the low anchor, the high anchor, the value
RewardAnchors ==
  <<<<20000, 10000>>, <<40000, 20000>>, <<50000, 20000>>,
    <<7000, 10000>>, <<8000, 10000>>, <<10000, 2500>>>>

FixedFields ==
  {<<3000, 18000, mSource.m["msv timer"]>>,
   <<100, 50, mSource.m["zone"].m["move fraction"]>>,
   <<70, 100, mSource.m["zone"].m["radius multiplier"]>>,
   <<50, 100, mSource.m["zone"].m["prio radius multiplier"]>>,
   <<1000, 3000, mSource.m["zone"].m["reward update interval"]>>}

RoundedFields ==
  UNION {{<<RewardAnchors[j][1], RewardAnchors[j][2], mSource.m["rewards"].l[j].m["xp"]>>,
          <<RewardAnchors[j][1], RewardAnchors[j][2], mSource.m["rewards"].l[j].m["$"]>>} :
           j \in 1..6}

\* the number a field's value stands for, in hundredths
NumericOf(v) == IF v.t = "num" THEN v.n ELSE v.d

Between(f) ==
  /\ Min2(f[1], f[2]) <= NumericOf(f[3])
  /\ NumericOf(f[3]) <= Max2(f[1], f[2])

\* C15 (as claimed): anchor levels are exact. Every interpolated field of
\* getLevelSettings(1) is its low anchor and of getLevelSettings(10) its
\* high anchor, as a number equal to the anchor literal, and for the levels
\* 2..9 it lies between the two anchors.
C15_AnchorsExact ==
  mPhase = "profile" =>
    \A f \in FixedFields \cup RoundedFields :
      /\ mResult = 1 => f[3] = Num(f[1])
      /\ mResult = 10 => f[3] = Num(f[2])
      /\ mResult \in 2..9 => Between(f)

\* what does hold: the fields agree with their anchors in value, xp and $
\* as numbers, the fields that go through toFixed(2) as numeral strings
C15_AnchorsInValue ==
  mPhase = "profile" =>
    /\ \A f \in FixedFields : f[3].t = "dec"
    /\ \A f \in RoundedFields : f[3].t = "num"
    /\ \A f \in FixedFields \cup RoundedFields :
         /\ mResult = 1 => NumericOf(f[3]) = f[1]
         /\ mResult = 10 => NumericOf(f[3]) = f[2]
         /\ Between(f)

\* -------------------------------------------------- change detection
SameLevel(c1, c2) == determineLevel(c1) = determineLevel(c2)

\* C16 (as claimed): change detection follows the resolved level. When a
\* call with count c1 has written the config and the next call, made after
\* it returned, observes another count c2 of the same level, both below
\* 50, the second call performs no config write.
C16_SkipsOnSameLevel ==
  (Wrote(prev2.out) /\ prev.out # "none" /\ prev.count < Threshold
     /\ prev.count # prev2.count /\ SameLevel(prev.count, prev2.count))
    => (prev.writes = 0 /\ ~prev.wrote)

\* C16 (amended): change detection follows the raw count. When a call
\* with count c1 has written the config, the next call, made after it
\* returned and observing c2 < 50, skips as unchanged exactly when
\* c2 = c1; with c2 # c1 it goes on to the config whatever the two levels
\* are, and is kept from writing only by a failure of that cycle.
C16_FollowsRawCount ==
  (Wrote(prev2.out) /\ prev.out # "none" /\ prev.count < Threshold)
    => /\ prev.out = "skip_same" <=> prev.count = prev2.count
       /\ prev.count # prev2.count => (prev.wrote \/ prev.out \in FailedOuts)

\* two counts of level 1, and the second call has written again
C16_Witness ==
  /\ prev2.out = "updated" /\ prev2.count = 10
  /\ prev.out = "updated" /\ prev.count = 0
  /\ SameLevel(prev.count, prev2.count)
  /\ prev.wrote

\* ---------------------------------------------- the profile in a document
\* the settings agree with the profile on every scalar key, those under
\* zone and economy included, and hold for every reward of the profile an
\* entry of its name with its xp and $
HoldsReward(rewards, reward) ==
  /\ IsArray(rewards)
  /\ \E j \in 1..Len(rewards.l) :
       /\ IsMap(rewards.l[j])
       /\ {"name", "xp", "$"} \subseteq DOMAIN rewards.l[j].m
       /\ \A k \in {"name", "xp", "$"} : rewards.l[j].m[k] = reward.m[k]

CarriesKey(settings, profile, k) ==
  /\ k \in DOMAIN settings.m
  /\ CASE profile.m[k].t = "map" ->
            /\ IsMap(settings.m[k])
            /\ \A kk \in DOMAIN profile.m[k].m :
                 /\ kk \in DOMAIN settings.m[k].m
                 /\ settings.m[k].m[kk] = profile.m[k].m[kk]
       [] profile.m[k].t = "list" ->
            \A j \in 1..Len(profile.m[k].l) : HoldsReward(settings.m[k], profile.m[k].l[j])
       [] OTHER -> settings.m[k] = profile.m[k]

CarriesProfile(settings, profile) ==
  IsMap(settings) /\ \A k \in DOMAIN profile.m : CarriesKey(settings, profile, k)

\* the text is that of a JSON object
WellFormed(text) ==
  StartsWithBrace(Sanitize(text)) /\ JsonParse(Sanitize(text)) # Throw

\* C17 (as claimed): an unreadable player list is acted on as an empty
\* server. A call that found the PlayerList file missing, unreadable or
\* malformed while lastPlayerCount was not 0 and the config file was
\* well-formed (and could be accessed, read and written) has written the
\* level-1 profile into the config and announced 0 players at level 1.
C17_EmptyServerWritten ==
  (prev.out # "none" /\ ~prev.listed /\ snap.valid /\ NoneInFlight
     /\ snap.last # 0 /\ WellFormed(snap.file)
     /\ prev.out \notin {"no_access", "read_fail", "write_fail"})
    => /\ prev.count = 0
       /\ prev.wrote
       /\ configFile = prev.pending
       /\ CarriesProfile(Get(configFile.body, "settings"), getLevelSettings(1))
       /\ prev.msg = <<0, 1>>

\* what does hold: such a call goes on with count 0, is not skipped while
\* lastPlayerCount is not 0, and announces 0 players at level 1 when it
\* gets to write
C17_ProceedsWithZero ==
  (prev.out # "none" /\ ~prev.listed)
    => /\ prev.count = 0
       /\ (snap.valid /\ snap.last # 0) => prev.out \notin {"skip_same", "skip_high"}
       /\ prev.wrote => prev.msg = <<0, 1>>

\* ------------------------------------------------- levels below the threshold
SettingsOfText(text) == Get(text.body, "settings")

\* the settings are a mapping that holds the "msv timer" of the level
AppliesLevel(text, level) ==
  /\ IsMap(SettingsOfText(text))
  /\ CarriesKey(SettingsOfText(text), getLevelSettings(level), "msv timer")

\* the settings are a mapping that holds the "msv timer" of a level 6..10
HighTimers == {getLevelSettings(l).m["msv timer"] : l \in 6..10}

AppliesHighLevel(text) ==
  /\ IsMap(SettingsOfText(text))
  /\ "msv timer" \in DOMAIN SettingsOfText(text).m
  /\ SettingsOfText(text).m["msv timer"] \in HighTimers

\* C18: the level is only resolved below the threshold. In every
\* execution a call resolves a level only for a count in 0..49, so that
\* level is in 1..5; lastPlayerCount is null or in 0..49; every text handed
\* to writeFile and every message announces a level in 1..5, and the config
\* never holds the profile of a level 6..10.
C18_LevelBelowThreshold ==
  /\ lastPlayerCount = NoCount \/ lastPlayerCount \in 0..(Threshold - 1)
  /\ \A c \in Calls :
       /\ (c.level # 0 \/ c.writes > 0 \/ c.bcasts > 0) =>
            /\ c.count \in 0..(Threshold - 1)
            /\ c.level = determineLevel(c.count)
            /\ c.level \in 1..5
       /\ c.count >= Threshold => (c.level = 0 /\ c.reads = 0 /\ c.writes = 0)
       /\ c.bcasts > 0 => c.msg[2] \in 1..5
       /\ c.writes > 0 => ~AppliesHighLevel(c.pending)
  /\ ~AppliesHighLevel(configFile)

\* a call with 50 players has skipped, after a call that applied level 2
C18_Witness ==
  /\ prev2.out = "updated" /\ prev2.count = 11
  /\ prev.out = "skip_high" /\ prev.count = 50 /\ prev.level = 0
  /\ lastPlayerCount = NoCount
  /\ AppliesLevel(configFile, 2)

\* --------------------------------------------- the remembered count
\* C19 (as claimed): the remembered count matches what is on disk. In
\* every reachable state with no updateSettings call in flight and
\* lastPlayerCount = c not null, the latest write carried out on the config
\* was made by a call that observed count c, whatever the interleaving of
\* the calls the timer starts.
C19_RememberedIsLastWriter ==
  (NoneInFlight /\ lastPlayerCount # NoCount) => lastWriter = lastPlayerCount

\* ------------------------------------------- the profile in what is written
\* C20 (as claimed): a successful write carries the whole profile.
\* Whenever updateSettings with count c hands a document to writeFile,
\* whatever the shape of the settings mapping read (zone, economy and
\* rewards absent, a scalar, a list or a mapping), the settings written
\* agree with getLevelSettings(determineLevel(c)) on every scalar key, those
\* under zone and economy included, and hold for every reward name of the
\* profile an entry of that name with the profile's xp and $.
C20_WholeProfileWritten ==
  (mPhase = "written" /\ mResult # Throw /\ IsMap(SettingsRead))
    => CarriesProfile(SettingsWritten, Profile)

\* what does hold: the profile is carried whole unless zone or economy was
\* read as a list
C20_ExceptListsRead ==
  (mPhase = "written" /\ mResult # Throw /\ IsMap(SettingsRead)
     /\ ~IsArray(Get(SettingsRead, "zone")) /\ ~IsArray(Get(SettingsRead, "economy")))
    => CarriesProfile(SettingsWritten, Profile)

====
